---- MODULE Spec2Model ----
(***************************************************************************)
(* Synchronization engine of NSO_BACKEND_HEAVY: the /sync/upload handler   *)
(* of src/routes/sync.js, the SyncLog session document and the Diagnosis   *)
(* pre-save hook of src/models/SyncLog.js.                                 *)
(*                                                                         *)
(* A handler is an async function: between two awaits it runs alone, and   *)
(* every await of a database operation is a point where another handler    *)
(* may run.  Each action below is one awaited database operation followed  *)
(* by the synchronous code up to the next await.  pc[c] names the await    *)
(* call c is suspended at.                                                 *)
(*                                                                         *)
(* syncLog[c] is the in-memory mongoose document of call c, sessions[c]    *)
(* is what the database holds of it.  A save that fails validation leaves  *)
(* the in-memory changes in place and the stored document untouched.       *)
(***************************************************************************)
EXTENDS Integers, Sequences, FiniteSets, TLC

\* ---------------------------------------------------------------- bounds
MaxCalls == 2      \* handler invocations in one behaviour
MaxItems == 2      \* records in the data object of one request
MaxTypes == 2      \* entries of the dataTypes array of one request
MaxNow   == 2      \* last value of the server clock
MaxFaults == 2     \* operations the database rejects on its own

Calls == 1 .. MaxCalls

\* The authenticated principal of a call: req.user._id and req.deviceId.
Principals ==
  { [userId |-> 1, deviceId |-> 1], [userId |-> 1, deviceId |-> 2] }

\* Data types the requests of the model use; "preferences" passes
\* validateSync and has no case in the upload switch.
UploadTypes == {"activities", "diagnoses", "preferences"}

\* Client records.  Every record carries an id (item._id || item.id).
ActivityItems ==
  { [id |-> 1, sessionId |-> 1, activityType |-> "login", timestamp |-> 1] }

\* Two versions of one diagnosis: same lookup key, different lastModified.
DiagnosisItems ==
  { [id |-> 3, sessionId |-> 1, patientId |-> 1, createdAt |-> 1,
     lastModified |-> 1, payload |-> "v1"],
    [id |-> 3, sessionId |-> 1, patientId |-> 1, createdAt |-> 1,
     lastModified |-> 2, payload |-> "v2"] }

PreferenceItems == { [id |-> 4] }

SeqsUpTo(S, n) == UNION { [1 .. k -> S] : k \in 0 .. n }

RECURSIVE SumLen(_, _)
SumLen(data, ts) ==
  IF ts = {} THEN 0
  ELSE LET t == CHOOSE x \in ts : TRUE
       IN Len(data[t]) + SumLen(data, ts \ {t})

\* Object.values(data).reduce(...): every array of the data object counts,
\* listed in dataTypes or not.
TotalItems(data) == SumLen(data, DOMAIN data)

DataMaps ==
  { d \in [activities  : SeqsUpTo(ActivityItems, MaxItems),
           diagnoses   : SeqsUpTo(DiagnosisItems, MaxItems),
           preferences : SeqsUpTo(PreferenceItems, MaxItems)] :
      TotalItems(d) <= MaxItems }

TypeLists == UNION { [1 .. k -> UploadTypes] : k \in 1 .. MaxTypes }

\* Requests validateSync accepts (dataTypes is a non-empty array of known
\* type names).  The data object may hold records of types that dataTypes
\* does not list, and dataTypes may name a type more than once; every type
\* it names comes with at least one record.
UploadRequests ==
  { r \in [principal : Principals, dataTypes : TypeLists, data : DataMaps] :
      \A k \in 1 .. Len(r.dataTypes) : Len(r.data[r.dataTypes[k]]) > 0 }

\* Requests of the calls that run one after another: one principal.
SerialRequests ==
  { r \in UploadRequests : r.principal = [userId |-> 1, deviceId |-> 1] }

\* Requests of the calls that overlap: few records, any principal.
MaxOverlapItems == 1

OverlapRequests ==
  { r \in UploadRequests : TotalItems(r.data) <= MaxOverlapItems }

NoRequest == [principal |-> [userId |-> 0, deviceId |-> 0],
              dataTypes |-> << >>,
              data |-> [activities |-> << >>, diagnoses |-> << >>,
                        preferences |-> << >>]]


\* ----------------------------------------------------------------- state
VARIABLES
  now,         \* the server clock (Date.now())
  activities,  \* Activity collection; a record's _id is its index
  diagnoses,   \* Diagnosis collection; a record's _id is its index
  sessions,    \* SyncLog collection: the stored document of each call
  pc,          \* the await each call is suspended at
  req,         \* req.body and the principal of each call
  ti,          \* index into dataTypes of the item being processed
  ii,          \* index into data[dataType] of the item being processed
  found,       \* existingActivity / existingDiagnosis of the current item
  results,     \* the handler's results object
  syncLog,     \* the handler's in-memory SyncLog document
  response,    \* what res.json / res.status(500).json sent
  faults,      \* operations the database may still reject on its own
  data,        \* the data object a download call has filled so far
  review,      \* the resolve-conflict call in progress
  listing      \* what the last conflicts query answered

vars == << now, activities, diagnoses, sessions, pc, req, ti, ii, found,
           results, syncLog, response, faults, data, review, listing >>

NullDate == 0      \* completedAt: default null
NullNum  == 0 - 1  \* duration: default null

\* -------------------------------------------------- the SyncLog document
NoProgress ==
  [totalItems |-> 0, processedItems |-> 0, successfulItems |-> 0,
   failedItems |-> 0, skippedItems |-> 0, percentage |-> 0]

NoDoc ==
  [userId |-> 0, deviceId |-> 0, syncType |-> "none", status |-> "absent",
   progress |-> NoProgress, startedAt |-> NullDate,
   completedAt |-> NullDate, duration |-> NullNum,
   errors |-> << >>, conflicts |-> << >>]

\* new SyncLog({... status: 'in_progress', progress: {totalItems}}) with the
\* schema defaults; startedAt defaults to Date.now.
NewSyncLog(principal, syncType, total, t) ==
  [userId |-> principal.userId, deviceId |-> principal.deviceId,
   syncType |-> syncType, status |-> "in_progress",
   progress |-> [NoProgress EXCEPT !.totalItems = total],
   startedAt |-> t, completedAt |-> NullDate, duration |-> NullNum,
   errors |-> << >>, conflicts |-> << >>]

\* Math.round((processedItems / totalItems) * 100), operands not negative.
\* The percentage with the quotient truncated before it is scaled.
PercentageTruncated(processed, total) == (processed \div total) * 100

Percentage(processed, total) == (200 * processed + total) \div (2 * total)

\* syncLogSchema.pre('save')
PreSave(doc) ==
  LET d1 == IF doc.completedAt # NullDate /\ doc.startedAt # NullDate
              THEN [doc EXCEPT !.duration = doc.completedAt - doc.startedAt]
              ELSE doc
  IN IF d1.progress.totalItems > 0
       THEN [d1 EXCEPT !.progress.percentage =
               Percentage(d1.progress.processedItems, d1.progress.totalItems)]
       ELSE d1

\* The schema validators a save runs on the progress paths: min 0 on the
\* counters, min 0 and max 100 on percentage.
Valid(doc) ==
  /\ doc.progress.totalItems >= 0
  /\ doc.progress.processedItems >= 0
  /\ doc.progress.successfulItems >= 0
  /\ doc.progress.failedItems >= 0
  /\ doc.progress.skippedItems >= 0
  /\ doc.progress.percentage >= 0
  /\ doc.progress.percentage <= 100

\* syncLogSchema.methods.markCompleted, up to its this.save()
\* The method with the status set and the times left alone.
markCompletedStatusOnly(doc, status, t) == [doc EXCEPT !.status = status]

markCompleted(doc, status, t) ==
  [doc EXCEPT !.status = status, !.completedAt = t,
              !.duration = t - doc.startedAt]

\* syncLogSchema.methods.addError, up to its this.save(); dataType and
\* itemId default to null ("none", 0).
\* The call with the data type left out of the entry.
addErrorWithoutDataType(doc, code, message, severity, dataType, itemId) ==
  [doc EXCEPT !.errors = Append(@,
     [code |-> code, message |-> message, severity |-> severity,
      dataType |-> "none", itemId |-> itemId, retryable |-> TRUE])]

addError(doc, code, message, severity, dataType, itemId) ==
  [doc EXCEPT !.errors = Append(@,
     [code |-> code, message |-> message, severity |-> severity,
      dataType |-> dataType, itemId |-> itemId, retryable |-> TRUE])]

\* syncLogSchema.methods.addConflict, up to its this.save(); resolution,
\* resolvedAt and resolvedBy take the schema defaults, mergedVersion is
\* not set ("none").
\* The call with the two versions in the wrong order.
addConflictSwapped(doc, itemId, dataType, conflictType, localV, serverV) ==
  [doc EXCEPT !.conflicts = Append(@,
     [itemId |-> itemId, dataType |-> dataType,
      conflictType |-> conflictType, resolution |-> "manual_review",
      resolvedAt |-> NullDate, resolvedBy |-> 0,
      localVersion |-> serverV, serverVersion |-> localV,
      mergedVersion |-> "none"])]

addConflict(doc, itemId, dataType, conflictType, localV, serverV) ==
  [doc EXCEPT !.conflicts = Append(@,
     [itemId |-> itemId, dataType |-> dataType,
      conflictType |-> conflictType, resolution |-> "manual_review",
      resolvedAt |-> NullDate, resolvedBy |-> 0,
      localVersion |-> localV, serverVersion |-> serverV,
      mergedVersion |-> "none"])]

\* syncLogSchema.methods.updateProgress, up to its this.save(); the upload
\* and download handlers pass three arguments, skippedItems stays null.
updateProgress(doc, processed, successful, failed) ==
  LET p1 == [doc.progress EXCEPT !.processedItems = processed,
                                 !.successfulItems = successful,
                                 !.failedItems = failed]
      p2 == IF p1.totalItems > 0
              THEN [p1 EXCEPT !.percentage =
                      Percentage(p1.processedItems, p1.totalItems)]
              ELSE p1
  IN [doc EXCEPT !.progress = p2]


\* ------------------------------------------------------ the Record Store
NoFound == [id |-> 0, doc |-> << >>]

\* Activity.findOne({userId, deviceId, sessionId, activityType, timestamp}):
\* the _id of a matching record, 0 when there is none.
ActivityMatches(a, principal, item) ==
  /\ a.userId = principal.userId
  /\ a.deviceId = principal.deviceId
  /\ a.sessionId = item.sessionId
  /\ a.activityType = item.activityType
  /\ a.timestamp = item.timestamp

\* The lookup with item.timestamp left as the string the client sent: a
\* stored Date never equals it.
FindOneActivityRawTimestamp(store, principal, item) == 0

FindOneActivity(store, principal, item) ==
  IF \E k \in 1 .. Len(store) : ActivityMatches(store[k], principal, item)
    THEN CHOOSE k \in 1 .. Len(store) :
           /\ ActivityMatches(store[k], principal, item)
           /\ \A j \in 1 .. k - 1 :
                ~ ActivityMatches(store[j], principal, item)
    ELSE 0

\* new Activity({...item, userId, deviceId, syncStatus: 'synced'})
NewActivity(principal, item) ==
  [userId |-> principal.userId, deviceId |-> principal.deviceId,
   sessionId |-> item.sessionId, activityType |-> item.activityType,
   timestamp |-> item.timestamp, syncStatus |-> "synced",
   updatedAt |-> NullDate]

\* The timestamps option of activitySchema at a save of a new document that
\* carries no createdAt: createdAt and updatedAt are the save time.
ActivityTimestamps(a, t) == [a EXCEPT !.updatedAt = t]

\* Diagnosis.findOne({userId, deviceId, sessionId, 'patient.id', createdAt})
DiagnosisMatches(d, principal, item) ==
  /\ d.userId = principal.userId
  /\ d.deviceId = principal.deviceId
  /\ d.sessionId = item.sessionId
  /\ d.patientId = item.patientId
  /\ d.createdAt = item.createdAt

FindOneDiagnosis(store, principal, item) ==
  IF \E k \in 1 .. Len(store) : DiagnosisMatches(store[k], principal, item)
    THEN CHOOSE k \in 1 .. Len(store) :
           /\ DiagnosisMatches(store[k], principal, item)
           /\ \A j \in 1 .. k - 1 :
                ~ DiagnosisMatches(store[j], principal, item)
    ELSE 0

\* diagnosisSchema.pre('save'): this.lastModified = Date.now()
DiagnosisPreSave(d, t) == [d EXCEPT !.lastModified = t]

\* new Diagnosis({...item, userId, deviceId, syncStatus: 'synced'})
NewDiagnosis(principal, item) ==
  [userId |-> principal.userId, deviceId |-> principal.deviceId,
   sessionId |-> item.sessionId, patientId |-> item.patientId,
   createdAt |-> item.createdAt, lastModified |-> item.lastModified,
   payload |-> item.payload, syncStatus |-> "synced",
   updatedAt |-> NullDate]

\* The timestamps option of diagnosisSchema at a save: a new document takes
\* the createdAt it carries as updatedAt, a modified one the save time.
DiagnosisTimestamps(d, isNew, t) ==
  [d EXCEPT !.updatedAt = IF isNew THEN d.createdAt ELSE t]

\* Object.assign(existingDiagnosis, item); syncStatus = 'synced'.  Every
\* field the item carries is copied, userId and deviceId included.
AssignDiagnosis(d, item) ==
  [d EXCEPT !.sessionId = item.sessionId, !.patientId = item.patientId,
            !.createdAt = item.createdAt,
            !.lastModified = item.lastModified,
            !.payload = item.payload, !.syncStatus = "synced",
            !.userId = IF "userId" \in DOMAIN item THEN item.userId ELSE @,
            !.deviceId = IF "deviceId" \in DOMAIN item
                           THEN item.deviceId ELSE @]

\* The branch the upload takes for a diagnosis item given what findOne
\* returned (existing = 0: no record; otherwise its lastModified).
\* The comparison with <= in the first test: equal timestamps overwrite.
DiagnosisBranchOverwriteOnEqual(existing, existingLastModified, item) ==
  IF existing = 0 THEN "create"
  ELSE IF existingLastModified <= item.lastModified THEN "overwrite"
  ELSE "conflict"

DiagnosisBranch(existing, existingLastModified, item) ==
  IF existing = 0 THEN "create"
  ELSE IF existingLastModified < item.lastModified THEN "overwrite"
  ELSE IF existingLastModified > item.lastModified THEN "conflict"
  ELSE "unchanged"

\* case 'diagnoses' for one item in a call that runs alone: the collection
\* after the item, t being the time of the save.
UploadDiagnosis(store, principal, item, t) ==
  LET k      == FindOneDiagnosis(store, principal, item)
      branch == DiagnosisBranch(k, IF k = 0 THEN 0 ELSE store[k].lastModified,
                                item)
  IN CASE branch = "create" ->
            Append(store,
                   DiagnosisTimestamps(
                     DiagnosisPreSave(NewDiagnosis(principal, item), t),
                     TRUE, t))
       [] branch = "overwrite" ->
            [store EXCEPT ![k] =
               DiagnosisTimestamps(
                 DiagnosisPreSave(AssignDiagnosis(store[k], item), t),
                 FALSE, t)]
       [] OTHER -> store

\* Date.now() / new Date(): the clock may have advanced since the last read.
ClockReads == { t \in {now, now + 1} : t <= MaxNow }


\* ------------------------------------------------------- upload: helpers
NoResults == [successful |-> << >>, failed |-> << >>, conflicts |-> << >>]

NoResponse == [code |-> 0, message |-> "none"]

\* const data = {} of a download call: the keys set so far and their arrays
NoData == [keys |-> {}, activities |-> << >>, diagnoses |-> << >>]

\* No resolve-conflict call is running.
NoReview ==
  [pc |-> "idle", syncId |-> 0, index |-> 0, doc |-> NoDoc, code |-> 0,
   error |-> "none", calls |-> 0]

\* No conflicts query has answered yet.
NoListing ==
  [principal |-> [userId |-> 0, deviceId |-> 0], page |-> 0, limit |-> 0,
   conflicts |-> << >>]

CurType(c) == req[c].dataTypes[ti[c]]
CurItem(c) == req[c].data[CurType(c)][ii[c]]

Min(S) == CHOOSE x \in S : \A y \in S : x <= y

\* The two nested for-loops: the position after (t, i), << 0, 0 >> when the
\* loops are exhausted.  A listed type without records is skipped.
NextPos(r, t, i) ==
  LET dts   == r.dataTypes
      more  == t >= 1 /\ t <= Len(dts) /\ i < Len(r.data[dts[t]])
      later == { k \in t + 1 .. Len(dts) : Len(r.data[dts[k]]) > 0 }
  IN IF more THEN << t, i + 1 >>
     ELSE IF later = {} THEN << 0, 0 >>
     ELSE << Min(later), 1 >>

\* results.successful.push({itemId, dataType, serverId: savedItem?._id})
PushSuccessful(res, item, dataType, serverId) ==
  [res EXCEPT !.successful = Append(@,
     [itemId |-> item.id, dataType |-> dataType, serverId |-> serverId])]

\* results.failed.push({itemId, dataType, error: itemError.message})
PushFailed(res, item, dataType, message) ==
  [res EXCEPT !.failed = Append(@,
     [itemId |-> item.id, dataType |-> dataType, error |-> message])]

\* results.conflicts.push({itemId, dataType, reason})
PushConflict(res, item, dataType) ==
  [res EXCEPT !.conflicts = Append(@,
     [itemId |-> item.id, dataType |-> dataType,
      reason |-> "concurrent_modification"])]

\* syncLog.updateProgress(successful.length + failed.length,
\*                        successful.length, failed.length), up to its save
\* The call with the successful items alone as processedItems.
ProgressOfSuccessfulOnly(doc, res) ==
  updateProgress(doc, Len(res.successful), Len(res.successful),
                 Len(res.failed))

ProgressOf(doc, res) ==
  updateProgress(doc, Len(res.successful) + Len(res.failed),
                 Len(res.successful), Len(res.failed))

\* const status = results.failed.length > 0 ? 'partial' : 'completed'
\* The status with conflicts counted as failures.
FinalStatusCountingConflicts(res) ==
  IF Len(res.failed) + Len(res.conflicts) > 0 THEN "partial" ELSE "completed"

FinalStatus(res) == IF Len(res.failed) > 0 THEN "partial" ELSE "completed"

\* Outcomes of syncLog.save(): a document that fails validation is always
\* rejected, a valid one is rejected only by a transient database failure.
SaveOutcomes(doc) ==
  IF ~ Valid(doc) THEN {FALSE}
  ELSE IF faults > 0 THEN {TRUE, FALSE}
  ELSE {TRUE}

FaultsAfter(doc, ok) == IF Valid(doc) /\ ~ ok THEN faults - 1 ELSE faults

\* A save that succeeded: the stored document and the in-memory one are the
\* document after the pre-save hook.
Saved(c, doc) ==
  /\ sessions' = [sessions EXCEPT ![c] = PreSave(doc)]
  /\ syncLog' = [syncLog EXCEPT ![c] = PreSave(doc)]

\* The handler returns (or dies): its request and loop variables are gone.
Return(c) ==
  /\ req' = [req EXCEPT ![c] = NoRequest]
  /\ ti' = [ti EXCEPT ![c] = 0]
  /\ ii' = [ii EXCEPT ![c] = 0]

\* The item was pushed to results.successful; the handler now awaits
\* updateProgress.
ItemSucceeded(c, serverId) ==
  LET res == PushSuccessful(results[c], CurItem(c), CurType(c), serverId)
  IN /\ results' = [results EXCEPT ![c] = res]
     /\ syncLog' = [syncLog EXCEPT ![c] = ProgressOf(syncLog[c], res)]
     /\ found' = [found EXCEPT ![c] = NoFound]
     /\ pc' = [pc EXCEPT ![c] = "progress"]

\* catch (itemError): the item is pushed to results.failed; the handler now
\* awaits addError('ITEM_PROCESSING_ERROR', message, 'medium', dataType, id).
ItemCatch(c, t, i, message) ==
  LET dataType == req[c].dataTypes[t]
      item     == req[c].data[dataType][i]
  IN /\ results' = [results EXCEPT ![c] =
                      PushFailed(@, item, dataType, message)]
     /\ syncLog' = [syncLog EXCEPT ![c] =
                      addError(@, "ITEM_PROCESSING_ERROR", message, "medium",
                               dataType, item.id)]
     /\ found' = [found EXCEPT ![c] = NoFound]
     /\ pc' = [pc EXCEPT ![c] = "addError"]

\* catch (error) of the handler: it now awaits
\* addError('SYNC_ERROR', error.message, 'high').
OuterCatch(c, message) ==
  /\ syncLog' = [syncLog EXCEPT ![c] =
                   addError(@, "SYNC_ERROR", message, "high", "none", 0)]
  /\ pc' = [pc EXCEPT ![c] = "catchAddError"]


\* ------------------------------------------------------- upload: actions
Init ==
  /\ now = 1
  /\ activities = << >>
  /\ diagnoses = << >>
  /\ sessions = [c \in Calls |-> NoDoc]
  /\ pc = [c \in Calls |-> "idle"]
  /\ req = [c \in Calls |-> NoRequest]
  /\ ti = [c \in Calls |-> 0]
  /\ ii = [c \in Calls |-> 0]
  /\ found = [c \in Calls |-> NoFound]
  /\ results = [c \in Calls |-> NoResults]
  /\ syncLog = [c \in Calls |-> NoDoc]
  /\ response = [c \in Calls |-> NoResponse]
  /\ faults = 0
  /\ data = [c \in Calls |-> NoData]
  /\ review = NoReview
  /\ listing = NoListing

Ended(c) == pc[c] \in {"done", "crashed"}

\* The request arrives: the handler builds the SyncLog and awaits its save.
\* Calls are numbered in the order they arrive, principals in the order
\* they first call.
StartUpload(c, requests) ==
  /\ pc[c] = "idle"
  /\ \A d \in Calls : d < c => pc[d] # "idle"
  /\ \E r \in requests, t \in ClockReads :
       /\ r.principal.deviceId <= c
       /\ req' = [req EXCEPT ![c] = r]
       /\ syncLog' = [syncLog EXCEPT ![c] =
            NewSyncLog(r.principal, "upload", TotalItems(r.data), t)]
       /\ now' = t
  /\ results' = [results EXCEPT ![c] = NoResults]
  /\ pc' = [pc EXCEPT ![c] = "create"]
  /\ UNCHANGED << activities, diagnoses, sessions, ti, ii, found, response,
                  faults >>
  /\ UNCHANGED << data, review, listing >>

\* The same, for calls processed one after another.
StartUploadSerial(c) ==
  /\ \A d \in Calls \ {c} : pc[d] = "idle" \/ Ended(d)
  /\ StartUpload(c, SerialRequests)

\* await syncLog.save() of the new document
CreateSession(c) ==
  /\ pc[c] = "create"
  /\ \E ok \in SaveOutcomes(syncLog[c]) :
       /\ faults' = FaultsAfter(syncLog[c], ok)
       /\ IF ok
            THEN /\ Saved(c, syncLog[c])
                 /\ pc' = [pc EXCEPT ![c] = "loop"]
            ELSE /\ OuterCatch(c, "save failed")
                 /\ UNCHANGED sessions
  /\ ti' = [ti EXCEPT ![c] = 0]
  /\ ii' = [ii EXCEPT ![c] = 0]
  /\ UNCHANGED << now, activities, diagnoses, req, found, results, response >>
  /\ UNCHANGED << data, review, listing >>

\* The loop heads: take the next item, or leave the loops and call
\* markCompleted(status).  An unsupported data type throws in the switch.
NextItem(c) ==
  /\ pc[c] = "loop"
  /\ LET pos == NextPos(req[c], ti[c], ii[c])
     IN IF pos = << 0, 0 >>
          THEN /\ \E t \in ClockReads :
                    /\ syncLog' = [syncLog EXCEPT ![c] =
                         markCompleted(@, FinalStatus(results[c]), t)]
                    /\ now' = t
               /\ pc' = [pc EXCEPT ![c] = "finalize"]
               /\ UNCHANGED << ti, ii, results, found >>
          ELSE /\ ti' = [ti EXCEPT ![c] = pos[1]]
               /\ ii' = [ii EXCEPT ![c] = pos[2]]
               /\ now' = now
               /\ IF req[c].dataTypes[pos[1]] \in {"activities", "diagnoses"}
                    THEN /\ pc' = [pc EXCEPT ![c] = "find"]
                         /\ UNCHANGED << results, syncLog, found >>
                    ELSE ItemCatch(c, pos[1], pos[2], "Unsupported data type")
  /\ UNCHANGED << activities, diagnoses, sessions, req, response, faults >>
  /\ UNCHANGED << data, review, listing >>

\* await Activity.findOne(...); an existing activity is the saved item.
FindActivity(c) ==
  /\ pc[c] = "find"
  /\ CurType(c) = "activities"
  /\ LET k == FindOneActivity(activities, req[c].principal, CurItem(c))
     IN IF k = 0
          THEN /\ pc' = [pc EXCEPT ![c] = "insert"]
               /\ UNCHANGED << results, syncLog, found >>
          ELSE ItemSucceeded(c, k)
  /\ UNCHANGED << now, activities, diagnoses, sessions, req, ti, ii,
                  response, faults >>
  /\ UNCHANGED << data, review, listing >>

\* savedItem = await activity.save()
InsertActivity(c) ==
  /\ pc[c] = "insert"
  /\ CurType(c) = "activities"
  /\ \E t \in ClockReads :
       /\ activities' = Append(activities,
            ActivityTimestamps(NewActivity(req[c].principal, CurItem(c)), t))
       /\ now' = t
  /\ ItemSucceeded(c, Len(activities) + 1)
  /\ UNCHANGED << diagnoses, sessions, req, ti, ii, response, faults >>
  /\ UNCHANGED << data, review, listing >>

\* await Diagnosis.findOne(...) and the comparison of lastModified
FindDiagnosis(c) ==
  /\ pc[c] = "find"
  /\ CurType(c) = "diagnoses"
  /\ LET item   == CurItem(c)
         k      == FindOneDiagnosis(diagnoses, req[c].principal, item)
         branch == DiagnosisBranch(k, IF k = 0 THEN 0
                                      ELSE diagnoses[k].lastModified, item)
     IN CASE branch = "create" ->
               /\ pc' = [pc EXCEPT ![c] = "insert"]
               /\ UNCHANGED << results, syncLog, found >>
          [] branch = "overwrite" ->
               /\ found' = [found EXCEPT ![c] =
                    [id |-> k, doc |-> AssignDiagnosis(diagnoses[k], item)]]
               /\ pc' = [pc EXCEPT ![c] = "overwrite"]
               /\ UNCHANGED << results, syncLog >>
          [] branch = "conflict" ->
               /\ syncLog' = [syncLog EXCEPT ![c] =
                    addConflict(@, item.id, "diagnoses",
                                "concurrent_modification", item, diagnoses[k])]
               /\ pc' = [pc EXCEPT ![c] = "addConflict"]
               /\ UNCHANGED << results, found >>
          [] OTHER -> ItemSucceeded(c, k)
  /\ UNCHANGED << now, activities, diagnoses, sessions, req, ti, ii,
                  response, faults >>
  /\ UNCHANGED << data, review, listing >>

\* savedItem = await diagnosis.save() of a new document
InsertDiagnosis(c) ==
  /\ pc[c] = "insert"
  /\ CurType(c) = "diagnoses"
  /\ \E t \in ClockReads :
       /\ diagnoses' = Append(diagnoses,
            DiagnosisTimestamps(
              DiagnosisPreSave(NewDiagnosis(req[c].principal, CurItem(c)), t),
              TRUE, t))
       /\ now' = t
  /\ ItemSucceeded(c, Len(diagnoses) + 1)
  /\ UNCHANGED << activities, sessions, req, ti, ii, response, faults >>
  /\ UNCHANGED << data, review, listing >>

\* savedItem = await existingDiagnosis.save() after Object.assign
OverwriteDiagnosis(c) ==
  /\ pc[c] = "overwrite"
  /\ \E t \in ClockReads :
       /\ diagnoses' = [diagnoses EXCEPT ![found[c].id] =
            DiagnosisTimestamps(DiagnosisPreSave(found[c].doc, t), FALSE, t)]
       /\ now' = t
  /\ ItemSucceeded(c, found[c].id)
  /\ UNCHANGED << activities, sessions, req, ti, ii, response, faults >>
  /\ UNCHANGED << data, review, listing >>

\* await syncLog.addConflict(...); results.conflicts.push(...); continue
AddConflict(c) ==
  /\ pc[c] = "addConflict"
  /\ \E ok \in SaveOutcomes(syncLog[c]) :
       /\ faults' = FaultsAfter(syncLog[c], ok)
       /\ IF ok
            THEN /\ Saved(c, syncLog[c])
                 /\ results' = [results EXCEPT ![c] =
                      PushConflict(@, CurItem(c), CurType(c))]
                 /\ pc' = [pc EXCEPT ![c] = "loop"]
                 /\ UNCHANGED found
            ELSE /\ ItemCatch(c, ti[c], ii[c], "save failed")
                 /\ UNCHANGED sessions
  /\ UNCHANGED << now, activities, diagnoses, req, ti, ii, response >>
  /\ UNCHANGED << data, review, listing >>

\* await syncLog.updateProgress(...)
UpdateProgress(c) ==
  /\ pc[c] = "progress"
  /\ \E ok \in SaveOutcomes(syncLog[c]) :
       /\ faults' = FaultsAfter(syncLog[c], ok)
       /\ IF ok
            THEN /\ Saved(c, syncLog[c])
                 /\ pc' = [pc EXCEPT ![c] = "loop"]
                 /\ UNCHANGED << results, found >>
            ELSE /\ ItemCatch(c, ti[c], ii[c], "save failed")
                 /\ UNCHANGED sessions
  /\ UNCHANGED << now, activities, diagnoses, req, ti, ii, response >>
  /\ UNCHANGED << data, review, listing >>

\* await syncLog.addError(...) in the per-item catch
AddError(c) ==
  /\ pc[c] = "addError"
  /\ \E ok \in SaveOutcomes(syncLog[c]) :
       /\ faults' = FaultsAfter(syncLog[c], ok)
       /\ IF ok
            THEN /\ Saved(c, syncLog[c])
                 /\ pc' = [pc EXCEPT ![c] = "loop"]
            ELSE /\ OuterCatch(c, "save failed")
                 /\ UNCHANGED sessions
  /\ UNCHANGED << now, activities, diagnoses, req, ti, ii, found, results,
                  response >>
  /\ UNCHANGED << data, review, listing >>

\* await syncLog.markCompleted(status); res.json({success: true, ...})
Finalize(c) ==
  /\ pc[c] = "finalize"
  /\ \E ok \in SaveOutcomes(syncLog[c]) :
       /\ faults' = FaultsAfter(syncLog[c], ok)
       /\ IF ok
            THEN /\ sessions' = [sessions EXCEPT ![c] = PreSave(syncLog[c])]
                 /\ syncLog' = [syncLog EXCEPT ![c] = NoDoc]
                 /\ response' = [response EXCEPT ![c] =
                      [code |-> 200, message |-> syncLog[c].status]]
                 /\ pc' = [pc EXCEPT ![c] = "done"]
                 /\ Return(c)
            ELSE /\ OuterCatch(c, "save failed")
                 /\ UNCHANGED << sessions, response, req, ti, ii >>
  /\ UNCHANGED << now, activities, diagnoses, found, results >>
  /\ UNCHANGED << data, review, listing >>

\* catch (error): await syncLog.addError('SYNC_ERROR', message, 'high'),
\* then markCompleted('failed') up to its save.  A rejected save inside the
\* catch block is an unhandled rejection: the handler ends without response.
CatchAddError(c) ==
  /\ pc[c] = "catchAddError"
  /\ \E ok \in SaveOutcomes(syncLog[c]) :
       /\ faults' = FaultsAfter(syncLog[c], ok)
       /\ IF ok
            THEN \E t \in ClockReads :
                   /\ sessions' = [sessions EXCEPT ![c] = PreSave(syncLog[c])]
                   /\ syncLog' = [syncLog EXCEPT ![c] =
                        markCompleted(PreSave(@), "failed", t)]
                   /\ now' = t
                   /\ pc' = [pc EXCEPT ![c] = "catchFinalize"]
                   /\ UNCHANGED << req, ti, ii >>
            ELSE /\ pc' = [pc EXCEPT ![c] = "crashed"]
                 /\ syncLog' = [syncLog EXCEPT ![c] = NoDoc]
                 /\ Return(c)
                 /\ UNCHANGED << now, sessions >>
  /\ UNCHANGED << activities, diagnoses, found, results, response >>
  /\ UNCHANGED << data, review, listing >>

\* catch (error): await syncLog.markCompleted('failed'); res.status(500)
CatchFinalize(c) ==
  /\ pc[c] = "catchFinalize"
  /\ \E ok \in SaveOutcomes(syncLog[c]) :
       /\ faults' = FaultsAfter(syncLog[c], ok)
       /\ IF ok
            THEN /\ sessions' = [sessions EXCEPT ![c] = PreSave(syncLog[c])]
                 /\ response' = [response EXCEPT ![c] =
                      [code |-> 500, message |-> "Upload sync failed"]]
                 /\ pc' = [pc EXCEPT ![c] = "done"]
            ELSE /\ pc' = [pc EXCEPT ![c] = "crashed"]
                 /\ UNCHANGED << sessions, response >>
  /\ syncLog' = [syncLog EXCEPT ![c] = NoDoc]
  /\ Return(c)
  /\ UNCHANGED << now, activities, diagnoses, found, results >>
  /\ UNCHANGED << data, review, listing >>

\* ------------------------------------------------------------- download
\* lastSyncTimestamp values: 0 is "none given" (the epoch), InvalidDate a
\* string new Date() cannot parse.
InvalidDate == 0 - 2

Watermarks == (0 .. MaxNow) \cup {InvalidDate}

\* Requests validateSync accepts for /download; lastSyncTimestamp is not
\* validated.
DownloadRequests ==
  [principal : {[userId |-> 1, deviceId |-> 1]}, dataTypes : TypeLists,
   lastSync : Watermarks]

\* .limit(1000) of the activities query, .limit(500) of the diagnoses query
ActivityLimit == 1000
DiagnosisLimit == 500

LimitOf(dataType) ==
  IF dataType = "activities" THEN ActivityLimit ELSE DiagnosisLimit

\* The filter {userId, updatedAt: {$gt: lastSync}, syncStatus: 'synced'}
\* The filter with $gte in place of $gt.
DownloadMatchesInclusive(r, userId, lastSync) ==
  /\ r.userId = userId
  /\ r.updatedAt >= lastSync
  /\ r.syncStatus = "synced"

DownloadMatches(r, userId, lastSync) ==
  /\ r.userId = userId
  /\ r.updatedAt > lastSync
  /\ r.syncStatus = "synced"

\* .sort({updatedAt: -1}).limit(n) over the records whose _id is in ids;
\* records with equal updatedAt come in _id order.
RECURSIVE SortLimit(_, _, _)
SortLimit(store, ids, n) ==
  IF ids = {} \/ n = 0 THEN << >>
  ELSE LET k == CHOOSE x \in ids : \A y \in ids :
                  \/ store[x].updatedAt > store[y].updatedAt
                  \/ store[x].updatedAt = store[y].updatedAt /\ x <= y
       IN << [id |-> k, doc |-> store[k]] >>
            \o SortLimit(store, ids \ {k}, n - 1)

\* Model.find(filter).sort(...).limit(n).lean()
FindSynced(store, userId, lastSync, n) ==
  SortLimit(store,
            { k \in 1 .. Len(store) :
                DownloadMatches(store[k], userId, lastSync) }, n)

\* A query with an Invalid Date is rejected when it is cast; any other query
\* is rejected only by a transient database failure.
FetchOutcomes(lastSync) ==
  IF lastSync = InvalidDate THEN {FALSE}
  ELSE IF faults > 0 THEN {TRUE, FALSE}
  ELSE {TRUE}

FetchFaultsAfter(lastSync, ok) ==
  IF lastSync # InvalidDate /\ ~ ok THEN faults - 1 ELSE faults

\* for (const dataType of dataTypes): the next entry after position t whose
\* case awaits a query, 0 when there is none.  The default case only logs.
DownloadNext(dataTypes, t) ==
  LET later == { k \in t + 1 .. Len(dataTypes) :
                   dataTypes[k] \in {"activities", "diagnoses"} }
  IN IF later = {} THEN 0 ELSE Min(later)

\* const totalItems = Object.values(data).reduce(...)
DataTotal(d) ==
  (IF "activities" \in d.keys THEN Len(d.activities) ELSE 0)
  + (IF "diagnoses" \in d.keys THEN Len(d.diagnoses) ELSE 0)

\* syncLog.updateProgress(totalItems, totalItems, 0), up to its save
DownloadProgressOf(doc, d) ==
  updateProgress(doc, DataTotal(d), DataTotal(d), 0)

\* The fetch loop goes on after position t with the in-memory document doc
\* and the data object d: to the next query, or past the loop to
\* updateProgress.
DownloadAdvance(c, doc, d, t) ==
  LET pos == DownloadNext(req[c].dataTypes, t)
  IN /\ ti' = [ti EXCEPT ![c] = pos]
     /\ IF pos = 0
          THEN /\ syncLog' = [syncLog EXCEPT ![c] = DownloadProgressOf(doc, d)]
               /\ pc' = [pc EXCEPT ![c] = "dProgress"]
          ELSE /\ syncLog' = [syncLog EXCEPT ![c] = doc]
               /\ pc' = [pc EXCEPT ![c] = "dFetch"]

\* catch (error) of the download handler: it now awaits addError.
DownloadOuterCatch(c, message) ==
  /\ syncLog' = [syncLog EXCEPT ![c] =
                   addError(@, "SYNC_ERROR", message, "high", "none", 0)]
  /\ pc' = [pc EXCEPT ![c] = "dCatchAddError"]

\* The request arrives: the handler builds the SyncLog (no totalItems) and
\* awaits its save.
StartDownload(c) ==
  /\ pc[c] = "idle"
  /\ \A d \in Calls : d < c => pc[d] # "idle"
  /\ \A d \in Calls \ {c} : pc[d] = "idle" \/ Ended(d)
  /\ review.pc = "idle"
  /\ \E r \in DownloadRequests, t \in ClockReads :
       /\ req' = [req EXCEPT ![c] = r]
       /\ syncLog' = [syncLog EXCEPT ![c] =
            NewSyncLog(r.principal, "download", 0, t)]
       /\ now' = t
  /\ data' = [data EXCEPT ![c] = NoData]
  /\ pc' = [pc EXCEPT ![c] = "dCreate"]
  /\ UNCHANGED << activities, diagnoses, sessions, ti, ii, found, results,
                  response, faults, review, listing >>

\* await syncLog.save() of the new document; const data = {}
DownloadCreate(c) ==
  /\ pc[c] = "dCreate"
  /\ \E ok \in SaveOutcomes(syncLog[c]) :
       /\ faults' = FaultsAfter(syncLog[c], ok)
       /\ IF ok
            THEN /\ sessions' = [sessions EXCEPT ![c] = PreSave(syncLog[c])]
                 /\ DownloadAdvance(c, PreSave(syncLog[c]), data[c], 0)
            ELSE /\ DownloadOuterCatch(c, "save failed")
                 /\ UNCHANGED << sessions, ti >>
  /\ UNCHANGED << now, activities, diagnoses, req, ii, found, results,
                  response, data, review, listing >>

\* data[dataType] = await Model.find(...).sort(...).limit(...).lean(), and
\* the catch (typeError) that calls addError up to its save
DownloadFetch(c) ==
  /\ pc[c] = "dFetch"
  /\ LET dataType == req[c].dataTypes[ti[c]]
         store    == IF dataType = "activities" THEN activities ELSE diagnoses
     IN \E ok \in FetchOutcomes(req[c].lastSync) :
          /\ faults' = FetchFaultsAfter(req[c].lastSync, ok)
          /\ IF ok
               THEN LET d == [data[c] EXCEPT
                                !.keys = @ \cup {dataType},
                                ![dataType] =
                                  FindSynced(store, req[c].principal.userId,
                                             req[c].lastSync,
                                             LimitOf(dataType))]
                    IN /\ data' = [data EXCEPT ![c] = d]
                       /\ DownloadAdvance(c, syncLog[c], d, ti[c])
               ELSE /\ syncLog' = [syncLog EXCEPT ![c] =
                         addError(@, "DATA_FETCH_ERROR", "query failed",
                                  "medium", dataType, 0)]
                    /\ pc' = [pc EXCEPT ![c] = "dAddError"]
                    /\ UNCHANGED << data, ti >>
  /\ UNCHANGED << now, activities, diagnoses, sessions, req, ii, found,
                  results, response, review, listing >>

\* await syncLog.addError('DATA_FETCH_ERROR', ...) in the per-type catch
DownloadAddError(c) ==
  /\ pc[c] = "dAddError"
  /\ \E ok \in SaveOutcomes(syncLog[c]) :
       /\ faults' = FaultsAfter(syncLog[c], ok)
       /\ IF ok
            THEN /\ sessions' = [sessions EXCEPT ![c] = PreSave(syncLog[c])]
                 /\ DownloadAdvance(c, PreSave(syncLog[c]), data[c], ti[c])
            ELSE /\ DownloadOuterCatch(c, "save failed")
                 /\ UNCHANGED << sessions, ti >>
  /\ UNCHANGED << now, activities, diagnoses, req, ii, found, results,
                  response, data, review, listing >>

\* await syncLog.updateProgress(totalItems, totalItems, 0), then
\* markCompleted('completed') up to its save
DownloadProgress(c) ==
  /\ pc[c] = "dProgress"
  /\ \E ok \in SaveOutcomes(syncLog[c]) :
       /\ faults' = FaultsAfter(syncLog[c], ok)
       /\ IF ok
            THEN \E t \in ClockReads :
                   /\ sessions' = [sessions EXCEPT ![c] = PreSave(syncLog[c])]
                   /\ syncLog' = [syncLog EXCEPT ![c] =
                        markCompleted(PreSave(@), "completed", t)]
                   /\ now' = t
                   /\ pc' = [pc EXCEPT ![c] = "dFinalize"]
            ELSE /\ DownloadOuterCatch(c, "save failed")
                 /\ UNCHANGED << now, sessions >>
  /\ UNCHANGED << activities, diagnoses, req, ti, ii, found, results,
                  response, data, review, listing >>

\* await syncLog.markCompleted('completed'); res.json({success: true, ...,
\* timestamp: new Date(), data})
DownloadFinalize(c) ==
  /\ pc[c] = "dFinalize"
  /\ \E ok \in SaveOutcomes(syncLog[c]) :
       /\ faults' = FaultsAfter(syncLog[c], ok)
       /\ IF ok
            THEN \E t \in ClockReads :
                   /\ sessions' = [sessions EXCEPT ![c] = PreSave(syncLog[c])]
                   /\ syncLog' = [syncLog EXCEPT ![c] = NoDoc]
                   /\ response' = [response EXCEPT ![c] =
                        [code |-> 200, message |-> "Download completed",
                         timestamp |-> t]]
                   /\ now' = t
                   /\ pc' = [pc EXCEPT ![c] = "done"]
                   /\ Return(c)
            ELSE /\ DownloadOuterCatch(c, "save failed")
                 /\ UNCHANGED << now, sessions, response, req, ti, ii >>
  /\ UNCHANGED << activities, diagnoses, found, results, data, review,
                  listing >>

\* catch (error): await syncLog.addError('SYNC_ERROR', message, 'high'),
\* then markCompleted('failed') up to its save.  A save rejected inside the
\* catch block ends the handler without a response.
DownloadCatchAddError(c) ==
  /\ pc[c] = "dCatchAddError"
  /\ \E ok \in SaveOutcomes(syncLog[c]) :
       /\ faults' = FaultsAfter(syncLog[c], ok)
       /\ IF ok
            THEN \E t \in ClockReads :
                   /\ sessions' = [sessions EXCEPT ![c] = PreSave(syncLog[c])]
                   /\ syncLog' = [syncLog EXCEPT ![c] =
                        markCompleted(PreSave(@), "failed", t)]
                   /\ now' = t
                   /\ pc' = [pc EXCEPT ![c] = "dCatchFinalize"]
                   /\ UNCHANGED << req, ti, ii >>
            ELSE /\ pc' = [pc EXCEPT ![c] = "crashed"]
                 /\ syncLog' = [syncLog EXCEPT ![c] = NoDoc]
                 /\ Return(c)
                 /\ UNCHANGED << now, sessions >>
  /\ UNCHANGED << activities, diagnoses, found, results, response, data,
                  review, listing >>

\* catch (error): await syncLog.markCompleted('failed'); res.status(500)
DownloadCatchFinalize(c) ==
  /\ pc[c] = "dCatchFinalize"
  /\ \E ok \in SaveOutcomes(syncLog[c]) :
       /\ faults' = FaultsAfter(syncLog[c], ok)
       /\ IF ok
            THEN /\ sessions' = [sessions EXCEPT ![c] = PreSave(syncLog[c])]
                 /\ response' = [response EXCEPT ![c] =
                      [code |-> 500, message |-> "Download sync failed"]]
                 /\ pc' = [pc EXCEPT ![c] = "done"]
            ELSE /\ pc' = [pc EXCEPT ![c] = "crashed"]
                 /\ UNCHANGED << sessions, response >>
  /\ syncLog' = [syncLog EXCEPT ![c] = NoDoc]
  /\ Return(c)
  /\ UNCHANGED << now, activities, diagnoses, found, results, data, review,
                  listing >>

DownloadStep(c) ==
  \/ DownloadCreate(c)
  \/ DownloadFetch(c)
  \/ DownloadAddError(c)
  \/ DownloadProgress(c)
  \/ DownloadFinalize(c)
  \/ DownloadCatchAddError(c)
  \/ DownloadCatchFinalize(c)

\* --------------------------------------------------------------- review
MaxReviewCalls == 3   \* requests to the conflict routes in one behaviour

\* The callers of the conflict routes: the uploading principals and another
\* user.
ReviewPrincipals == Principals \cup { [userId |-> 2, deviceId |-> 1] }

\* Uploads that can end in conflicts: diagnoses only.
ReviewRequests ==
  { r \in [principal : Principals, dataTypes : TypeLists,
           data : DataMaps] :
      /\ r.dataTypes = << "diagnoses" >>
      /\ Len(r.data.diagnoses) > 0
      /\ TotalItems(r.data) = Len(r.data.diagnoses) }

\* req.body of /resolve-conflict: no middleware validates it.  Item id 9
\* names no conflict; "bogus" is not in the enum of conflicts.resolution.
ConflictItemIds == {3, 9}
Resolutions == {"merge", "skip", "manual_review", "bogus"}
MergedData == {"none", "m"}

\* enum of conflicts.resolution
ResolutionEnum ==
  {"server_wins", "client_wins", "merge", "manual_review", "skip"}

\* const { page = 1, limit = 20 } = req.query
DefaultLimit == 20
Pages == { [page |-> 1, limit |-> DefaultLimit], [page |-> 1, limit |-> 1],
           [page |-> 2, limit |-> 1] }

\* The validators a save runs on the conflict entries.
ValidConflicts(doc) ==
  \A k \in 1 .. Len(doc.conflicts) :
    doc.conflicts[k].resolution \in ResolutionEnum

\* SyncLog.findOne({_id: syncId, userId, deviceId}): the _id, 0 for null
FindOneSyncLog(syncId, principal) ==
  IF /\ syncId \in Calls
     /\ sessions[syncId].status # "absent"
     /\ sessions[syncId].userId = principal.userId
     /\ sessions[syncId].deviceId = principal.deviceId
    THEN syncId ELSE 0

\* syncLog.conflicts.find(c => c.itemId === conflictItemId): the index of
\* the first entry with that item id, 0 for undefined
FindConflict(doc, itemId) ==
  LET hits == { k \in 1 .. Len(doc.conflicts) :
                  doc.conflicts[k].itemId = itemId }
  IN IF hits = {} THEN 0 ELSE Min(hits)

\* conflict.resolution = resolution; conflict.resolvedAt = new Date();
\* conflict.resolvedBy = req.user._id; if (mergedData) mergedVersion = it
\* The assignments made to every entry of the session.
ResolveEntryEverywhere(doc, k, resolution, t, userId, merged) ==
  [doc EXCEPT !.conflicts =
     [j \in 1 .. Len(doc.conflicts) |->
        [doc.conflicts[j] EXCEPT
           !.resolution = resolution, !.resolvedAt = t,
           !.resolvedBy = userId,
           !.mergedVersion = IF merged # "none" THEN merged ELSE @]]]

ResolveEntry(doc, k, resolution, t, userId, merged) ==
  [doc EXCEPT !.conflicts[k] =
     [@ EXCEPT !.resolution = resolution, !.resolvedAt = t,
               !.resolvedBy = userId,
               !.mergedVersion = IF merged # "none" THEN merged ELSE @]]

\* The answer of a conflict route, the request forgotten.
Answered(code, error, calls) ==
  [NoReview EXCEPT !.code = code, !.error = error, !.calls = calls]

\* No upload or download is running.
Quiet == \A c \in Calls : pc[c] = "idle" \/ Ended(c)

\* An upload arrives while no other call and no resolve-conflict call runs.
StartUploadReview(c) ==
  /\ Quiet
  /\ review.pc = "idle"
  /\ StartUpload(c, ReviewRequests)

\* /resolve-conflict: await SyncLog.findOne(...), the two 404 answers, and
\* the assignments to the entry up to syncLog.save()
ResolveFind ==
  /\ review.pc = "idle"
  /\ review.calls < MaxReviewCalls
  /\ Quiet
  /\ \E p \in ReviewPrincipals, syncId \in Calls, itemId \in ConflictItemIds,
        resolution \in Resolutions, merged \in MergedData, t \in ClockReads :
       LET s == FindOneSyncLog(syncId, p)
           k == IF s = 0 THEN 0 ELSE FindConflict(sessions[s], itemId)
       IN IF s = 0
            THEN /\ review' = Answered(404, "SYNC_LOG_NOT_FOUND",
                                       review.calls + 1)
                 /\ now' = now
            ELSE IF k = 0
            THEN /\ review' = Answered(404, "CONFLICT_NOT_FOUND",
                                       review.calls + 1)
                 /\ now' = now
            ELSE /\ review' =
                      [pc |-> "save", syncId |-> s, index |-> k,
                       doc |-> ResolveEntry(sessions[s], k, resolution, t,
                                            p.userId, merged),
                       code |-> 0, error |-> "none",
                       calls |-> review.calls + 1]
                 /\ now' = t
  /\ UNCHANGED << activities, diagnoses, sessions, pc, req, ti, ii, found,
                  results, syncLog, response, faults, data, listing >>

\* await syncLog.save(); res.json, or the catch that answers 500
ResolveSave ==
  /\ review.pc = "save"
  /\ \E ok \in SaveOutcomes(review.doc) :
       /\ faults' = FaultsAfter(review.doc, ok)
       /\ IF ok /\ ValidConflicts(review.doc)
            THEN /\ sessions' = [sessions EXCEPT ![review.syncId] =
                                   PreSave(review.doc)]
                 /\ review' = Answered(200, "none", review.calls)
            ELSE /\ review' = Answered(500, "RESOLVE_CONFLICT_ERROR",
                                       review.calls)
                 /\ UNCHANGED sessions
  /\ UNCHANGED << now, activities, diagnoses, pc, req, ti, ii, found,
                  results, syncLog, response, data, listing >>

\* The filter {userId, deviceId, 'conflicts.resolution': 'manual_review'}
HasUnresolved(doc, principal) ==
  /\ doc.status # "absent"
  /\ doc.userId = principal.userId
  /\ doc.deviceId = principal.deviceId
  /\ \E k \in 1 .. Len(doc.conflicts) :
       doc.conflicts[k].resolution = "manual_review"

\* .sort({startedAt: -1}).skip(skip).limit(limit) over the sessions whose
\* _id is in ids; sessions started together come latest _id first.
RECURSIVE SortSkipLimit(_, _, _)
SortSkipLimit(ids, skip, limit) ==
  IF ids = {} \/ limit = 0 THEN << >>
  ELSE LET s == CHOOSE x \in ids : \A y \in ids :
                  \/ sessions[x].startedAt > sessions[y].startedAt
                  \/ sessions[x].startedAt = sessions[y].startedAt /\ x >= y
       IN IF skip > 0 THEN SortSkipLimit(ids \ {s}, skip - 1, limit)
          ELSE << s >> \o SortSkipLimit(ids \ {s}, 0, limit - 1)

\* log.conflicts.forEach: the entries of session s still in manual_review
UnresolvedOf(s) ==
  LET open == SelectSeq(sessions[s].conflicts,
                        LAMBDA e : e.resolution = "manual_review")
  IN [k \in 1 .. Len(open) |->
        [syncId |-> s, syncTimestamp |-> sessions[s].startedAt,
         conflict |-> open[k]]]

RECURSIVE Flatten(_)
Flatten(logs) ==
  IF logs = << >> THEN << >>
  ELSE UnresolvedOf(Head(logs)) \o Flatten(Tail(logs))

\* What GET /conflicts answers to principal for (page, limit)
ListConflicts(principal, page, limit) ==
  Flatten(SortSkipLimit({ s \in Calls : HasUnresolved(sessions[s], principal) },
                        (page - 1) * limit, limit))

\* GET /conflicts: await SyncLog.find(...).lean(); res.json
GetConflicts ==
  /\ review.pc = "idle"
  /\ review.calls < MaxReviewCalls
  /\ Quiet
  /\ \E p \in ReviewPrincipals, q \in Pages :
       listing' = [principal |-> p, page |-> q.page, limit |-> q.limit,
                   conflicts |-> ListConflicts(p, q.page, q.limit)]
  /\ review' = [review EXCEPT !.calls = @ + 1]
  /\ UNCHANGED << now, activities, diagnoses, sessions, pc, req, ti, ii,
                  found, results, syncLog, response, faults, data >>

\* ------------------------------------------------------- specifications
UploadStep(c) ==
  \/ CreateSession(c)
  \/ NextItem(c)
  \/ FindActivity(c)
  \/ InsertActivity(c)
  \/ FindDiagnosis(c)
  \/ InsertDiagnosis(c)
  \/ OverwriteDiagnosis(c)
  \/ AddConflict(c)
  \/ UpdateProgress(c)
  \/ AddError(c)
  \/ Finalize(c)
  \/ CatchAddError(c)

\* Calls processed one after another.
Next == \E c \in Calls : StartUploadSerial(c) \/ UploadStep(c)

Spec == Init /\ [][Next]_vars

\* Calls that overlap: a call may arrive while others are suspended.
StartUploadOverlap(c) == StartUpload(c, OverlapRequests)

NextConcurrent == \E c \in Calls : StartUploadOverlap(c) \/ UploadStep(c)

ConcurrentSpec == Init /\ [][NextConcurrent]_vars


\* Calls one after another, with a database that may reject SyncLog saves
\* on its own.
InitFault ==
  /\ now = 1
  /\ activities = << >>
  /\ diagnoses = << >>
  /\ sessions = [c \in Calls |-> NoDoc]
  /\ pc = [c \in Calls |-> "idle"]
  /\ req = [c \in Calls |-> NoRequest]
  /\ ti = [c \in Calls |-> 0]
  /\ ii = [c \in Calls |-> 0]
  /\ found = [c \in Calls |-> NoFound]
  /\ results = [c \in Calls |-> NoResults]
  /\ syncLog = [c \in Calls |-> NoDoc]
  /\ response = [c \in Calls |-> NoResponse]
  /\ faults = MaxFaults
  /\ data = [c \in Calls |-> NoData]
  /\ review = NoReview
  /\ listing = NoListing

NextFault ==
  \E c \in Calls : StartUploadSerial(c) \/ UploadStep(c) \/ CatchFinalize(c)

FaultSpec == InitFault /\ [][NextFault]_vars


\* Records other routes and other principals have written before the calls
\* of LedgerSpec: another user's synced records, and records of the calling
\* user that another device wrote, synced or still pending.
SeedActivities ==
  << [userId |-> 2, deviceId |-> 1, sessionId |-> 1, activityType |-> "login",
      timestamp |-> 1, syncStatus |-> "synced", updatedAt |-> 1],
     [userId |-> 1, deviceId |-> 2, sessionId |-> 2, activityType |-> "login",
      timestamp |-> 1, syncStatus |-> "pending", updatedAt |-> 1],
     [userId |-> 1, deviceId |-> 2, sessionId |-> 2, activityType |-> "login",
      timestamp |-> 2, syncStatus |-> "synced", updatedAt |-> 1] >>

SeedDiagnoses ==
  << [userId |-> 2, deviceId |-> 1, sessionId |-> 1, patientId |-> 1,
      createdAt |-> 1, lastModified |-> 1, payload |-> "v0",
      syncStatus |-> "synced", updatedAt |-> 1],
     [userId |-> 1, deviceId |-> 2, sessionId |-> 2, patientId |-> 1,
      createdAt |-> 1, lastModified |-> 1, payload |-> "v0",
      syncStatus |-> "pending", updatedAt |-> 1] >>

\* Uploads and downloads one after another, over a store that already holds
\* records, with a database that may reject operations on its own.
InitLedger ==
  /\ now = 1
  /\ activities = SeedActivities
  /\ diagnoses = SeedDiagnoses
  /\ sessions = [c \in Calls |-> NoDoc]
  /\ pc = [c \in Calls |-> "idle"]
  /\ req = [c \in Calls |-> NoRequest]
  /\ ti = [c \in Calls |-> 0]
  /\ ii = [c \in Calls |-> 0]
  /\ found = [c \in Calls |-> NoFound]
  /\ results = [c \in Calls |-> NoResults]
  /\ syncLog = [c \in Calls |-> NoDoc]
  /\ response = [c \in Calls |-> NoResponse]
  /\ faults = MaxFaults
  /\ data = [c \in Calls |-> NoData]
  /\ review = NoReview
  /\ listing = NoListing

NextLedger ==
  \E c \in Calls :
    \/ StartUploadSerial(c)
    \/ UploadStep(c)
    \/ CatchFinalize(c)
    \/ StartDownload(c)
    \/ DownloadStep(c)

LedgerSpec == InitLedger /\ [][NextLedger]_vars

\* Uploads of diagnoses one after another, and between them the calls of
\* the conflict routes.
ReviewUploadStep(c) ==
  \/ CreateSession(c)
  \/ NextItem(c)
  \/ FindDiagnosis(c)
  \/ InsertDiagnosis(c)
  \/ OverwriteDiagnosis(c)
  \/ AddConflict(c)
  \/ UpdateProgress(c)
  \/ Finalize(c)

NextReview ==
  \/ \E c \in Calls : StartUploadReview(c) \/ ReviewUploadStep(c)
  \/ ResolveFind
  \/ ResolveSave
  \/ GetConflicts

ReviewSpec == Init /\ [][NextReview]_vars

\* Uploads that end in errors and conflicts, downloads, and the calls of
\* the conflict routes, one after another.
AuditRequests ==
  { r \in SerialRequests :
      /\ r.data.activities = << >>
      /\ r.dataTypes \in { << "diagnoses" >>, << "preferences", "diagnoses" >> } }

StartUploadAudit(c) ==
  /\ Quiet
  /\ review.pc = "idle"
  /\ StartUpload(c, AuditRequests)

StartDownloadAudit(c) ==
  /\ StartDownload(c)
  /\ req'[c].dataTypes = << "diagnoses" >>

NextAudit ==
  \/ \E c \in Calls :
       \/ StartUploadAudit(c)
       \/ ReviewUploadStep(c)
       \/ AddError(c)
       \/ StartDownloadAudit(c)
       \/ DownloadCreate(c)
       \/ DownloadFetch(c)
       \/ DownloadAddError(c)
       \/ DownloadProgress(c)
       \/ DownloadFinalize(c)
  \/ ResolveFind
  \/ ResolveSave
  \/ GetConflicts

AuditSpec == Init /\ [][NextAudit]_vars

\* Uploads whose records carry a userId and a deviceId of their own (the
\* route does not strip fields from the records of the batch).
OwnedActivityItems ==
  { [id |-> 1, sessionId |-> 1, activityType |-> "login", timestamp |-> 1,
     userId |-> 2, deviceId |-> 2] }

OwnedDiagnosisItems ==
  { [id |-> 3, sessionId |-> 1, patientId |-> 1, createdAt |-> 1,
     lastModified |-> 2, payload |-> "v2", userId |-> 2, deviceId |-> 2] }

OwnerRequests ==
  { r \in [principal : { [userId |-> 1, deviceId |-> 1] },
           dataTypes : { << "activities" >>, << "diagnoses" >> },
           data : [activities  : SeqsUpTo(ActivityItems \cup OwnedActivityItems,
                                          MaxItems),
                   diagnoses   : SeqsUpTo(DiagnosisItems \cup OwnedDiagnosisItems,
                                          MaxItems),
                   preferences : { << >> }]] :
      /\ TotalItems(r.data) <= MaxItems
      /\ Len(r.data[r.dataTypes[1]]) > 0
      /\ TotalItems(r.data) = Len(r.data[r.dataTypes[1]]) }

StartUploadOwner(c) ==
  /\ Quiet
  /\ StartUpload(c, OwnerRequests)

NextOwner ==
  \E c \in Calls :
    \/ StartUploadOwner(c)
    \/ ReviewUploadStep(c)
    \/ FindActivity(c)
    \/ InsertActivity(c)

OwnerSpec == Init /\ [][NextOwner]_vars

\* A client that uploads and downloads in turn and passes to each download
\* the timestamp of the answer to its previous one.  Its download before the
\* calls of the behaviour was answered at FirstResponse, when the store held
\* no record of the user.
FirstResponse == 1

WatermarkUploads ==
  { r \in SerialRequests :
      /\ r.dataTypes \in { << "activities" >>, << "diagnoses" >> }
      /\ TotalItems(r.data) = Len(r.data[r.dataTypes[1]]) }

Downloaded(c) ==
  /\ pc[c] = "done"
  /\ sessions[c].syncType = "download"
  /\ response[c].code = 200

\* The timestamp of the answer to the client's latest download.
PreviousTimestamp ==
  LET earlier == { d \in Calls : Downloaded(d) }
  IN IF earlier = {} THEN FirstResponse
     ELSE response[CHOOSE d \in earlier : \A e \in earlier : e <= d].timestamp

StartUploadWatermark(c) ==
  /\ Quiet
  /\ StartUpload(c, WatermarkUploads)

StartDownloadWatermark(c) ==
  /\ StartDownload(c)
  /\ req'[c].dataTypes = << "activities", "diagnoses" >>
  /\ req'[c].lastSync = PreviousTimestamp

NextWatermark ==
  \E c \in Calls :
    \/ StartUploadWatermark(c)
    \/ ReviewUploadStep(c)
    \/ FindActivity(c)
    \/ InsertActivity(c)
    \/ StartDownloadWatermark(c)
    \/ DownloadCreate(c)
    \/ DownloadFetch(c)
    \/ DownloadProgress(c)
    \/ DownloadFinalize(c)

WatermarkSpec == Init /\ [][NextWatermark]_vars

\* ------------------------------------------------------------ properties
ActivityKeys == Principals \X ActivityItems
DiagnosisKeys == Principals \X DiagnosisItems

StoredActivities(p, a) ==
  { k \in 1 .. Len(activities) : ActivityMatches(activities[k], p, a) }

StoredDiagnoses(p, d) ==
  { k \in 1 .. Len(diagnoses) : DiagnosisMatches(diagnoses[k], p, d) }

Range(f) == { f[k] : k \in DOMAIN f }

\* C1: with calls processed one after another, an activity whose key
\* (user, device, session, type, timestamp) is already stored is not
\* inserted again: no key is stored twice, and every activity a running
\* call has reported in results.successful carries the _id of the one
\* stored record with the call's principal and the item's key.
C1_ActivityIdempotent ==
  /\ \A key \in ActivityKeys : Cardinality(StoredActivities(key[1], key[2])) <= 1
  /\ \A c \in Calls :
       ~ Ended(c) =>
         \A e \in Range(results[c].successful) :
           e.dataType = "activities" =>
             \E a \in ActivityItems :
               /\ a.id = e.itemId
               /\ StoredActivities(req[c].principal, a) = {e.serverId}

\* A second call reports the record the first call inserted.
C1_Witness ==
  /\ Len(activities) = 1
  /\ pc[1] = "done"
  /\ pc[2] = "progress"
  /\ \E e \in Range(results[1].successful) :
       e.dataType = "activities" /\ e.serverId = 1
  /\ Len(results[2].successful) = 2
  /\ \A e \in Range(results[2].successful) :
       e.dataType = "activities" /\ e.serverId = 1

\* C2: a diagnosis item whose stored record is the version an earlier call
\* accepted from that same item (same key, same content) takes the
\* already-applied path: it is pushed to results.successful, no conflict
\* entry is added and the stored records do not change.
C2_RetryIsNoOp ==
  [][\A c \in Calls :
       ( /\ pc[c] = "find"
         /\ pc'[c] # "find"
         /\ CurType(c) = "diagnoses"
         /\ LET k == FindOneDiagnosis(diagnoses, req[c].principal, CurItem(c))
            IN /\ k # 0
               /\ diagnoses[k].payload = CurItem(c).payload
               /\ \E d \in Calls \ {c} :
                    /\ Ended(d)
                    /\ \E e \in Range(results[d].successful) :
                         e.dataType = "diagnoses" /\ e.serverId = k )
       => /\ pc'[c] = "progress"
          /\ Len(results'[c].successful) = Len(results[c].successful) + 1
          /\ syncLog'[c].conflicts = syncLog[c].conflicts
          /\ diagnoses' = diagnoses]_vars

\* C3: when the calls that overlapped have all ended, no activity key and no
\* diagnosis key is stored more than once.
C3_OneRecordPerKey ==
  (\A c \in Calls : Ended(c)) =>
    /\ \A key \in ActivityKeys :
         Cardinality(StoredActivities(key[1], key[2])) <= 1
    /\ \A key \in DiagnosisKeys :
         Cardinality(StoredDiagnoses(key[1], key[2])) <= 1


\* The content stored under the key of item d after the uploads.
StoredVersion(store, p, d) == store[FindOneDiagnosis(store, p, d)].payload

\* C4: two calls that run one after the other and upload two versions of
\* one diagnosis (same key, different lastModified) leave the same version
\* in the store whichever call runs first.
C4_OrderIndependent ==
  \A p \in Principals, d1 \in DiagnosisItems, d2 \in DiagnosisItems :
    (DiagnosisMatches(NewDiagnosis(p, d1), p, d2)
       /\ d1.lastModified # d2.lastModified) =>
      \A t1 \in now .. MaxNow, t2 \in now .. MaxNow :
        t1 <= t2 =>
          StoredVersion(UploadDiagnosis(UploadDiagnosis(diagnoses, p, d1, t1),
                                        p, d2, t2), p, d1)
          = StoredVersion(UploadDiagnosis(UploadDiagnosis(diagnoses, p, d2, t1),
                                          p, d1, t2), p, d1)

\* The step of call c that leaves the await named label.
Leaves(c, label) == pc[c] = label /\ pc'[c] # label

Existing(c) == FindOneDiagnosis(diagnoses, req[c].principal, CurItem(c))

SuccessPushed(c, serverId) ==
  results'[c].successful =
    Append(results[c].successful,
           [itemId |-> CurItem(c).id, dataType |-> CurType(c),
            serverId |-> serverId])

\* C5: what happens to a diagnosis item is decided by the stored record S of
\* its key and the order of S.lastModified and the item's lastModified L.
\* No S: a record with the item's content and syncStatus synced is created.
\* S older than L: S takes the item's content and syncStatus synced, nothing
\* else in the store changes.  S newer than L: a conflict is recorded and the
\* store is left alone.  S as old as L: nothing is written and the item is
\* pushed to results.successful with the _id of S.  A conflict entry is
\* added in the S-newer case only.
C5_DecisionTable ==
  [][\A c \in Calls :
       /\ (Leaves(c, "find") /\ CurType(c) = "diagnoses") =>
            LET k == Existing(c)
                L == CurItem(c).lastModified
            IN /\ diagnoses' = diagnoses
               /\ k = 0 => pc'[c] = "insert"
               /\ (k # 0 /\ diagnoses[k].lastModified < L) =>
                    pc'[c] = "overwrite"
               /\ (k # 0 /\ diagnoses[k].lastModified > L) =>
                    /\ pc'[c] = "addConflict"
                    /\ Len(syncLog'[c].conflicts) = Len(syncLog[c].conflicts) + 1
               /\ (k # 0 /\ diagnoses[k].lastModified = L) =>
                    /\ pc'[c] = "progress"
                    /\ SuccessPushed(c, k)
               /\ (k = 0 \/ diagnoses[k].lastModified <= L) =>
                    syncLog'[c].conflicts = syncLog[c].conflicts
       /\ (Leaves(c, "insert") /\ CurType(c) = "diagnoses") =>
            /\ Len(diagnoses') = Len(diagnoses) + 1
            /\ \A k \in 1 .. Len(diagnoses) : diagnoses'[k] = diagnoses[k]
            /\ LET new == diagnoses'[Len(diagnoses')]
               IN /\ DiagnosisMatches(new, req[c].principal, CurItem(c))
                  /\ new.payload = CurItem(c).payload
                  /\ new.syncStatus = "synced"
            /\ SuccessPushed(c, Len(diagnoses'))
            /\ syncLog'[c].conflicts = syncLog[c].conflicts
       /\ Leaves(c, "overwrite") =>
            LET k == Existing(c)
            IN /\ Len(diagnoses') = Len(diagnoses)
               /\ \A j \in 1 .. Len(diagnoses) :
                    j # k => diagnoses'[j] = diagnoses[j]
               /\ DiagnosisMatches(diagnoses'[k], req[c].principal, CurItem(c))
               /\ diagnoses'[k].payload = CurItem(c).payload
               /\ diagnoses'[k].syncStatus = "synced"
               /\ SuccessPushed(c, k)
               /\ syncLog'[c].conflicts = syncLog[c].conflicts
       /\ (~ Ended(c) /\ Len(syncLog'[c].conflicts) > Len(syncLog[c].conflicts)) =>
            /\ Leaves(c, "find")
            /\ CurType(c) = "diagnoses"
            /\ Existing(c) # 0
            /\ diagnoses[Existing(c)].lastModified > CurItem(c).lastModified
    ]_vars

\* A call is about to overwrite the older stored version v1 with v2.
C5_Witness ==
  \E c \in Calls :
    /\ pc[c] = "overwrite"
    /\ diagnoses[found[c].id].payload = "v1"
    /\ found[c].doc.payload = "v2"

\* C6: a diagnosis item older than the stored record S of its key leaves the
\* store unchanged, is not pushed to results.successful, and adds exactly one
\* entry to the session's conflicts: conflictType concurrent_modification,
\* resolution manual_review, the incoming item as localVersion and S as
\* serverVersion.
C6_ConflictRecorded ==
  [][\A c \in Calls :
       /\ ( /\ Leaves(c, "find")
            /\ CurType(c) = "diagnoses"
            /\ Existing(c) # 0
            /\ diagnoses[Existing(c)].lastModified > CurItem(c).lastModified )
          => /\ pc'[c] = "addConflict"
             /\ diagnoses' = diagnoses
             /\ results'[c] = results[c]
             /\ sessions'[c] = sessions[c]
       /\ Leaves(c, "addConflict") =>
            /\ diagnoses' = diagnoses
            /\ results'[c].successful = results[c].successful
            /\ results'[c].failed = results[c].failed
            /\ Len(results'[c].conflicts) = Len(results[c].conflicts) + 1
            /\ sessions'[c].errors = sessions[c].errors
            /\ sessions'[c].conflicts =
                 Append(sessions[c].conflicts,
                        [itemId |-> CurItem(c).id, dataType |-> "diagnoses",
                         conflictType |-> "concurrent_modification",
                         resolution |-> "manual_review",
                         resolvedAt |-> NullDate, resolvedBy |-> 0,
                         localVersion |-> CurItem(c),
                         serverVersion |-> diagnoses[Existing(c)],
                         mergedVersion |-> "none"])
            /\ pc'[c] = "loop"
    ]_vars

\* A session holds the conflict of the older version v1 against a stored v2.
C6_Witness ==
  \E c \in Calls :
    /\ Len(sessions[c].conflicts) = 1
    /\ sessions[c].conflicts[1].localVersion.payload = "v1"
    /\ sessions[c].conflicts[1].serverVersion.payload = "v2"
    /\ Len(results[c].conflicts) = 1

\* C7: an exception raised while one item is processed stays with that item:
\* a call that pushed items to results.failed runs its loop to the end and
\* answers, its session holds one medium ITEM_PROCESSING_ERROR entry per
\* failed item, carrying the item's id and data type, and its session does
\* not end as failed.
C7_ItemErrorConfined ==
  \A c \in Calls :
    (Ended(c) /\ Len(results[c].failed) > 0) =>
      /\ pc[c] = "done"
      /\ response[c].code = 200
      /\ sessions[c].status # "failed"
      /\ Len(sessions[c].errors) = Len(results[c].failed)
      /\ \A k \in 1 .. Len(sessions[c].errors) :
           /\ sessions[c].errors[k].code = "ITEM_PROCESSING_ERROR"
           /\ sessions[c].errors[k].severity = "medium"
           /\ sessions[c].errors[k].itemId = results[c].failed[k].itemId
           /\ sessions[c].errors[k].dataType = results[c].failed[k].dataType

\* C8: when an upload has finalized its session, the session's counters are
\* the lengths of the lists of the response: failedItems of details.failed,
\* successfulItems of details.successful, processedItems their sum.
C8_CountersMatchDetails ==
  \A c \in Calls :
    (pc[c] = "done" /\ response[c].code = 200) =>
      /\ sessions[c].progress.failedItems = Len(results[c].failed)
      /\ sessions[c].progress.successfulItems = Len(results[c].successful)
      /\ sessions[c].progress.processedItems =
           Len(results[c].successful) + Len(results[c].failed)

\* C9: an upload whose loop ran to the end finalizes its session as completed
\* when results.failed is empty and as partial otherwise; items that ended
\* in a conflict are not in results.failed and the session's error list has
\* one entry per failed item and none for a conflict.
C9_FinalStatus ==
  \A c \in Calls :
    (pc[c] = "done" /\ response[c].code = 200) =>
      /\ sessions[c].status =
           IF Len(results[c].failed) = 0 THEN "completed" ELSE "partial"
      /\ response[c].message = sessions[c].status
      /\ sessions[c].completedAt # NullDate
      /\ Len(sessions[c].errors) = Len(results[c].failed)
      /\ \A e \in Range(results[c].failed) :
           \A f \in Range(results[c].conflicts) :
             ~ (e.itemId = f.itemId /\ e.dataType = f.dataType)

\* An upload with a conflict and no failure ended as completed.
C9_Witness ==
  \E c \in Calls :
    /\ pc[c] = "done"
    /\ Len(results[c].conflicts) > 0
    /\ Len(results[c].failed) = 0
    /\ sessions[c].status = "completed"
    /\ sessions[c].errors = << >>

\* C10: a call that entered the catch block of the handler ends with a
\* high-severity error entry in its session, the session finalized as
\* failed and a failure response sent, and the steps of the catch block
\* leave the Record Store as it is.
C10_SessionLevelFailure ==
  [][\A c \in Calls :
       (pc[c] \in {"catchAddError", "catchFinalize"} /\ pc'[c] # pc[c]) =>
         /\ activities' = activities
         /\ diagnoses' = diagnoses
         /\ Ended(c)' =>
              /\ sessions'[c].status = "failed"
              /\ \E k \in 1 .. Len(sessions'[c].errors) :
                   sessions'[c].errors[k].severity = "high"
              /\ response'[c].code = 500
    ]_vars

\* C11: every upload or download call answers: a call whose handler has
\* ended, whatever the session ended as and whichever save was rejected,
\* has sent its one response (200 or 500).
C11_AlwaysResponds ==
  \A c \in Calls : Ended(c) => response[c].code \in {200, 500}

\* C12: no session is left unfinished: when the call of a session has ended,
\* the stored session is completed, partial, failed or cancelled, never
\* initiated or in_progress.
C12_TerminalStatus ==
  \A c \in Calls :
    (Ended(c) /\ sessions[c].status # "absent") =>
      sessions[c].status \in {"completed", "partial", "failed", "cancelled"}

\* C13: in every stored session, processedItems is the sum of
\* successfulItems, failedItems and skippedItems.
C13_CountersAddUp ==
  \A c \in Calls :
    sessions[c].progress.processedItems =
      sessions[c].progress.successfulItems + sessions[c].progress.failedItems
      + sessions[c].progress.skippedItems

\* A stored upload session counts a failed and a successful item.
C13_Witness ==
  \E c \in Calls :
    /\ sessions[c].syncType = "upload"
    /\ sessions[c].progress.failedItems = 1
    /\ sessions[c].progress.successfulItems = 1
    /\ sessions[c].progress.processedItems = 2

C16_DownloadTotals ==
  \A c \in Calls :
    (pc[c] = "done" /\ response[c].code = 200
       /\ sessions[c].syncType = "download") =>
      /\ sessions[c].progress.totalItems = DataTotal(data[c])
      /\ sessions[c].progress.processedItems = DataTotal(data[c])
      /\ sessions[c].progress.successfulItems = DataTotal(data[c])
      /\ sessions[c].progress.failedItems = 0
      /\ sessions[c].status = "completed"

\* C17: a query of a download that fails adds one medium DATA_FETCH_ERROR
\* entry carrying the data type to the session and leaves data alone; once
\* the entry is saved the loop goes on with the next listed type that has a
\* query, or past the loop when there is none; a download that answered
\* and whose session holds fetch errors only has answered 200 and is stored
\* as completed.
C17_FetchErrorConfined ==
  [][\A c \in Calls :
       /\ (Leaves(c, "dFetch") /\ pc'[c] = "dAddError") =>
            /\ syncLog'[c].errors =
                 Append(syncLog[c].errors,
                        [code |-> "DATA_FETCH_ERROR",
                         message |-> "query failed", severity |-> "medium",
                         dataType |-> req[c].dataTypes[ti[c]], itemId |-> 0,
                         retryable |-> TRUE])
            /\ data' = data
            /\ ti' = ti
       /\ (Leaves(c, "dAddError") /\ pc'[c] # "dCatchAddError") =>
            LET later == { k \in ti[c] + 1 .. Len(req[c].dataTypes) :
                             req[c].dataTypes[k] \in {"activities", "diagnoses"} }
            IN /\ sessions'[c].errors = syncLog[c].errors
               /\ sessions'[c].status = "in_progress"
               /\ later # {} => /\ pc'[c] = "dFetch"
                                /\ ti'[c] \in later
                                /\ \A k \in later : ti'[c] <= k
               /\ later = {} => pc'[c] = "dProgress"
       /\ ( /\ pc'[c] = "done"
            /\ sessions'[c].syncType = "download"
            /\ sessions'[c].errors # << >>
            /\ \A k \in 1 .. Len(sessions'[c].errors) :
                 sessions'[c].errors[k].code = "DATA_FETCH_ERROR" ) =>
            /\ response'[c].code = 200
            /\ sessions'[c].status = "completed"
    ]_vars

\* A download whose activities query failed has answered with the diagnoses
\* it fetched afterwards.
C17_Witness ==
  \E c \in Calls :
    /\ pc[c] = "done"
    /\ response[c].code = 200
    /\ sessions[c].status = "completed"
    /\ Len(sessions[c].errors) = 1
    /\ sessions[c].errors[1].dataType = "activities"
    /\ "diagnoses" \in data[c].keys
    /\ Len(data[c].diagnoses) > 0

\* C18: a conflict entry starts in manual_review and changes at most once:
\* a resolve-conflict call moves it to server_wins, client_wins, merge or
\* skip, and from then on no step changes its resolution, resolvedAt or
\* resolvedBy or returns it to manual_review.
Terminal == {"server_wins", "client_wins", "merge", "skip"}

C18_ResolvedOnce ==
  [][\A s \in Calls :
       \A k \in 1 .. Len(sessions[s].conflicts) :
         LET old == sessions[s].conflicts[k]
             new == sessions'[s].conflicts[k]
         IN /\ k <= Len(sessions'[s].conflicts)
            /\ old.resolution # "manual_review" =>
                 /\ new.resolution = old.resolution
                 /\ new.resolvedAt = old.resolvedAt
                 /\ new.resolvedBy = old.resolvedBy
            /\ new.resolution # old.resolution =>
                 new.resolution \in Terminal]_vars

\* C19: the conflicts query returns, for the calling user and device,
\* exactly the entries in manual_review of the sessions on the requested
\* page: every listed entry is such an entry of a session of the caller,
\* a page that covers all sessions lists each of them once, and an entry
\* that was resolved with another resolution never comes back into
\* manual_review, so that no later query lists it.
OpenEntries(principal) ==
  { e \in Calls \X (1 .. MaxItems) :
      /\ sessions[e[1]].status # "absent"
      /\ sessions[e[1]].userId = principal.userId
      /\ sessions[e[1]].deviceId = principal.deviceId
      /\ e[2] <= Len(sessions[e[1]].conflicts)
      /\ sessions[e[1]].conflicts[e[2]].resolution = "manual_review" }

ListingExact ==
  LET rows == listing.conflicts
      open == OpenEntries(listing.principal)
  IN /\ \A i \in 1 .. Len(rows) :
          \E e \in open :
            /\ rows[i].syncId = e[1]
            /\ rows[i].syncTimestamp = sessions[e[1]].startedAt
            /\ rows[i].conflict = sessions[e[1]].conflicts[e[2]]
     /\ Cardinality({ rows[i].syncId : i \in 1 .. Len(rows) }) <= listing.limit
     /\ (listing.page = 1 /\ listing.limit >= MaxCalls) =>
          /\ Len(rows) = Cardinality(open)
          /\ \A e \in open :
               \E i \in 1 .. Len(rows) :
                 /\ rows[i].syncId = e[1]
                 /\ rows[i].conflict = sessions[e[1]].conflicts[e[2]]

C19_ListsUnresolved ==
  [][/\ GetConflicts => ListingExact'
     /\ \A s \in Calls :
          \A k \in 1 .. Len(sessions[s].conflicts) :
            (/\ k <= Len(sessions'[s].conflicts)
             /\ sessions[s].conflicts[k].resolution # "manual_review")
            => sessions'[s].conflicts[k].resolution # "manual_review"]_vars

C21_CreatedInitiated ==
  [][\A c \in Calls :
       (sessions[c].status = "absent" /\ sessions'[c].status # "absent") =>
         sessions'[c].status = "initiated"]_vars

\* C22: totalItems of an upload session is the number of records the call
\* processes: when the item loop has ended and the call has answered 200,
\* the successful, failed and conflicted items together are totalItems.
C22_TotalIsProcessed ==
  \A c \in Calls :
    (pc[c] = "done" /\ response[c].code = 200
       /\ sessions[c].syncType = "upload") =>
      Len(results[c].successful) + Len(results[c].failed)
        + Len(results[c].conflicts) = sessions[c].progress.totalItems

\* C23: in the answer of an upload every record of a listed data type is in
\* exactly one of details.successful, details.failed and details.conflicts:
\* for each data type the three lists together hold as many entries of the
\* type as the batch holds records of it, and none for a type not listed.
\* (results.successful / failed / conflicts of the answer are the lengths
\* of these lists, taken in the same res.json expression.)
EntriesOf(list, dataType) ==
  Cardinality({ k \in 1 .. Len(list) : list[k].dataType = dataType })

Listed(r) == { r.dataTypes[k] : k \in 1 .. Len(r.dataTypes) }

C23_OneOutcomePerItem ==
  [][\A c \in Calls :
       (Leaves(c, "finalize") /\ pc'[c] = "done") =>
         \A dataType \in UploadTypes :
           EntriesOf(results[c].successful, dataType)
             + EntriesOf(results[c].failed, dataType)
             + EntriesOf(results[c].conflicts, dataType)
           = IF dataType \in Listed(req[c])
               THEN Len(req[c].data[dataType]) ELSE 0]_vars

\* C24: the error list and the conflict list of a stored session only grow:
\* every step keeps the entries a list holds, in their places; an error
\* entry never changes, and a conflict entry changes only in the step that
\* saves a resolve-conflict call, which changes the entry it found and of
\* it only resolution, resolvedAt, resolvedBy and mergedVersion.
C24_AppendOnly ==
  [][\A c \in Calls :
       LET errs  == sessions[c].errors
           errs2 == sessions'[c].errors
           cons  == sessions[c].conflicts
           cons2 == sessions'[c].conflicts
       IN /\ Len(errs) <= Len(errs2)
          /\ \A k \in 1 .. Len(errs) : errs2[k] = errs[k]
          /\ Len(cons) <= Len(cons2)
          /\ \A k \in 1 .. Len(cons) :
               cons2[k] # cons[k] =>
                 /\ ResolveSave
                 /\ c = review.syncId
                 /\ k = review.index
                 /\ cons2[k] = [cons[k] EXCEPT
                                  !.resolution = cons2[k].resolution,
                                  !.resolvedAt = cons2[k].resolvedAt,
                                  !.resolvedBy = cons2[k].resolvedBy,
                                  !.mergedVersion = cons2[k].mergedVersion]
    ]_vars

\* C24 witness: a stored upload session holds an error entry and a conflict
\* entry that a resolve-conflict call changed.
C24_Witness ==
  \E c \in Calls :
    /\ sessions[c].syncType = "upload"
    /\ Len(sessions[c].errors) = 1
    /\ Len(sessions[c].conflicts) = 1
    /\ sessions[c].conflicts[1].resolution = "merge"
    /\ sessions[c].conflicts[1].resolvedAt # NullDate
    /\ sessions[c].status = "partial"

\* C25: in every stored session completedAt is set exactly when the status
\* is completed, partial or failed, it is not earlier than startedAt, and
\* duration is completedAt minus startedAt when completedAt is set and null
\* otherwise.
Finished == {"completed", "partial", "failed"}

C25_TimingConsistent ==
  \A c \in Calls :
    sessions[c].status # "absent" =>
      /\ (sessions[c].completedAt # NullDate) <=> (sessions[c].status \in Finished)
      /\ sessions[c].completedAt # NullDate =>
           /\ sessions[c].completedAt >= sessions[c].startedAt
           /\ sessions[c].duration =
                sessions[c].completedAt - sessions[c].startedAt
      /\ sessions[c].completedAt = NullDate => sessions[c].duration = NullNum

\* C25 witness: a session finalized one clock tick after it started, and a
\* stored session that is still in progress.
C25_Witness ==
  /\ \E c \in Calls :
       /\ sessions[c].status \in Finished
       /\ sessions[c].completedAt = sessions[c].startedAt + 1
       /\ sessions[c].duration = 1
  /\ \E c \in Calls :
       /\ sessions[c].status = "in_progress"
       /\ sessions[c].duration = NullNum

\* C26: for every upload request validateSync accepts, in every state of
\* the session, the stored document and the document the handler holds,
\* processedItems is at most totalItems and percentage is between 0 and 100.
ProgressBounded(doc) ==
  /\ doc.progress.processedItems <= doc.progress.totalItems
  /\ doc.progress.percentage >= 0
  /\ doc.progress.percentage <= 100

C26_ProgressBounded ==
  \A c \in Calls : ProgressBounded(sessions[c]) /\ ProgressBounded(syncLog[c])

\* C27: an upload never changes the owner of a stored record, and every
\* record it creates or overwrites is owned by the calling user and device,
\* whatever fields the records of the batch carry.
OwnerOf(r) == [userId |-> r.userId, deviceId |-> r.deviceId]

OwnersKept(store, store2, writers) ==
  /\ Len(store) <= Len(store2)
  /\ \A k \in 1 .. Len(store2) :
       IF k <= Len(store)
         THEN /\ OwnerOf(store2[k]) = OwnerOf(store[k])
              /\ store2[k] # store[k] =>
                   \E c \in writers : OwnerOf(store2[k]) = req[c].principal
         ELSE \E c \in writers : OwnerOf(store2[k]) = req[c].principal

C27_OwnerKept ==
  [][/\ OwnersKept(activities, activities',
                   { c \in Calls : pc[c] = "insert" })
     /\ OwnersKept(diagnoses, diagnoses',
                   { c \in Calls : pc[c] \in {"insert", "overwrite"} })]_vars

\* C28: a client that passes to each download the timestamp of the answer
\* to its previous one is sent every synced record of its user: when a
\* download answers with timestamp T, every synced record of the user that
\* the store holds has been returned by this answer or an earlier one (the
\* downloads that follow ask for records with updatedAt after T only).
ReturnedIn(rows, k) == \E i \in 1 .. Len(rows) : rows[i].id = k

C28_NothingSkipped ==
  [][\A c \in Calls :
       (Leaves(c, "dFinalize") /\ pc'[c] = "done") =>
         LET userId == req[c].principal.userId
         IN /\ \A k \in 1 .. Len(activities) :
                 (activities[k].userId = userId
                    /\ activities[k].syncStatus = "synced") =>
                   \E d \in Calls :
                     Downloaded(d)' /\ ReturnedIn(data[d].activities, k)
            /\ \A k \in 1 .. Len(diagnoses) :
                 (diagnoses[k].userId = userId
                    /\ diagnoses[k].syncStatus = "synced") =>
                   \E d \in Calls :
                     Downloaded(d)' /\ ReturnedIn(data[d].diagnoses, k)]_vars

\* C29: a conflict entry in manual_review can be resolved by naming its
\* session and its item id, also when the session holds several entries
\* with that item id: a resolve-conflict call that answers 200 for a
\* session in which an entry with the item id is still in manual_review
\* has resolved an entry that was in manual_review.
C29_ResolvesOpenEntry ==
  [][(ResolveSave /\ review'.code = 200) =>
       LET cons == sessions[review.syncId].conflicts
           k    == review.index
       IN (\E j \in 1 .. Len(cons) :
             /\ cons[j].itemId = cons[k].itemId
             /\ cons[j].resolution = "manual_review")
          => cons[k].resolution = "manual_review"]_vars

====
